---- MODULE Spec2Model ----
(***************************************************************************)
(* Model of src/App.js (myLocationBase): the React component App with its  *)
(* dark-mode preference (AsyncStorage), its capture workflow getLocation   *)
(* (expo-location) and its record store (expo-sqlite, table locations).    *)
(*                                                                         *)
(* Every async function is a process whose position (pc) is the await it   *)
(* is suspended at.  One action is one suspension resuming: the awaited    *)
(* platform call takes effect and the JavaScript that follows runs up to   *)
(* the next await.  db.withTransactionAsync(task) is the library's         *)
(* await BEGIN; task(); await COMMIT, with await ROLLBACK and rethrow on   *)
(* any error, on the single shared connection `db` (line 18); it is not    *)
(* exclusive, so the statements of two transactions may interleave at the  *)
(* awaits.  The connection runs its async statements one at a time, in the *)
(* order they were issued (dbQueue).                                       *)
(***************************************************************************)
EXTENDS Integers, Sequences, FiniteSets, TLC

\* ---------------------------------------------------------------- bounds
MaxRecords == 2       \* rows the table may come to hold in one behaviour

\* Invocations of getLocation / onToggleSwitch that may be pending at once.
CaptureIds == {1, 2}
ToggleIds == {1, 2, 3}

\* Readings Location.getCurrentPositionAsync may return (degrees, rounded).
Positions == { [latitude |-> 37, longitude |-> -122],
               [latitude |-> 40, longitude |-> -73] }

\* Outcomes of Location.requestForegroundPermissionsAsync: a status, or a throw.
PermissionOutcomes == {"granted", "denied", "undetermined", "throws"}

VARIABLES
  isSwitchOn,   \* useState(false), line 21
  isLoading,    \* useState(false), line 22
  locations,    \* useState(null), line 23: [loaded |-> FALSE] is null
  storage,      \* AsyncStorage item 'darkMode': AbsentItem or a JSON string
  db,           \* locations.db as the connection sees it: tables, rows, sequence
  dbSaved,      \* the database as of the open transaction's BEGIN (else empty)
  txActive,     \* the connection has an open transaction
  dbQueue,      \* the flows with an async statement issued, oldest first
  ctPc,         \* createTable() started by initializeData (not awaited)
  initPc,       \* initializeData: loadDarkMode then loadLocations
  initFetched,  \* fetchedData of initializeData's loadLocations
  pc,           \* pc[i]: where invocation i of getLocation is suspended
  pos,          \* pos[i]: the position invocation i obtained
  fetched,      \* fetched[i]: fetchedData of invocation i's loadLocations
  togPc,        \* togPc[t]: onToggleSwitch invocation t, idle or writing
  togValue,     \* togValue[t]: newValue of invocation t
  alert,        \* the last Alert.alert dialog raised, or NoAlert
  unhandled,    \* async functions whose rejection nobody handles
  startLen,     \* startLen[i]: records in the store when invocation i started
  insertedId,   \* insertedId[i]: result.lastInsertRowId of invocation i
  did,          \* did[i]: the provider/store steps invocation i has performed
  lastStatus,   \* what the last permission request to return returned
  lastSet,      \* the boolean of the last setItem that succeeded, or NeverSet
  sessionToggled, \* the switch was pressed in the current session
  writeFailed,  \* a setItem('darkMode') of the current session was rejected
  prefLoad      \* how this session's getItem('darkMode') ended, if it has

vars == << isSwitchOn, isLoading, locations, storage, db, dbSaved, txActive,
           dbQueue,
           ctPc, initPc, initFetched, pc, pos, fetched, togPc,
           togValue, alert, unhandled, startLen, insertedId, did, lastStatus,
           lastSet,
           sessionToggled, writeFailed, prefLoad >>

reactVars == << isSwitchOn, isLoading, locations >>
dbVars == << db, dbSaved, txActive >>
ctVars == << ctPc >>
initVars == << initPc, initFetched, prefLoad >>
capVars == << pc, pos, fetched, startLen, insertedId, did, alert,
             lastStatus >>
togVars == << togPc, togValue, sessionToggled, writeFailed >>
prefVars == << storage, lastSet >>

\* ------------------------------------------------------------ data model
AbsentItem == "<absent>"
NeverSet == [set |-> FALSE, value |-> FALSE]
NoPosition == [latitude |-> 0, longitude |-> 0]
NullLocations == [loaded |-> FALSE, data |-> << >>]
EmptyDb == [tables |-> << >>, rows |-> << >>, seq |-> 0]
NoAlert == [title |-> "none", detail |-> "none"]

\* A parse that takes every non-empty text for true.
JSONparseTruthy(s) == s # ""

\* JSON.stringify / JSON.parse on a boolean (lines 37, 48).
JSONstringify(b) == IF b THEN "true" ELSE "false"
JSONparse(s) == s = "true"

\* ------------------------------------------------------------- SQL layer
\* The statements the code sends, as functions of the database they run on.
\* Each yields [ok, db]: whether the statement succeeded and the database after.
TableExists(d) == \E k \in 1..Len(d.tables) : d.tables[k] = "locations"

\* A plain CREATE TABLE: "table locations already exists" on a second call.
CreateTablePlain(d) ==
  IF TableExists(d)
    THEN [ok |-> FALSE, db |-> d]
    ELSE [ok |-> TRUE, db |-> [d EXCEPT !.tables = Append(@, "locations")]]

\* 'CREATE TABLE IF NOT EXISTS locations (id INTEGER PRIMARY KEY
\* AUTOINCREMENT, latitude REAL, longitude REAL);' (line 101)
CreateTableIfNotExists(d) ==
  IF TableExists(d)
    THEN [ok |-> TRUE, db |-> d]
    ELSE [ok |-> TRUE, db |-> [d EXCEPT !.tables = Append(@, "locations")]]

\* An insert binding the parameters in the wrong order.
InsertSwapped(d, latitude, longitude) ==
  IF TableExists(d)
    THEN [ok |-> TRUE,
          db |-> [d EXCEPT !.seq = @ + 1,
                           !.rows = Append(@, [id |-> d.seq + 1,
                                               latitude |-> longitude,
                                               longitude |-> latitude])]]
    ELSE [ok |-> FALSE, db |-> d]

\* An insert that keeps a single row: INSERT OR REPLACE under a fixed id.
InsertOrReplaceFirst(d, latitude, longitude) ==
  IF TableExists(d)
    THEN [ok |-> TRUE,
          db |-> [d EXCEPT !.seq = 1,
                           !.rows = << [id |-> 1,
                                        latitude |-> latitude,
                                        longitude |-> longitude] >>]]
    ELSE [ok |-> FALSE, db |-> d]

\* 'INSERT INTO locations (latitude, longitude) values (?, ?);' with
\* [latitude, longitude] (line 114).  AUTOINCREMENT: the id is one more than
\* the largest id the table has ever held (the sequence).
Insert(d, latitude, longitude) ==
  IF TableExists(d)
    THEN [ok |-> TRUE,
          db |-> [d EXCEPT !.seq = @ + 1,
                           !.rows = Append(@, [id |-> d.seq + 1,
                                               latitude |-> latitude,
                                               longitude |-> longitude])]]
    ELSE [ok |-> FALSE, db |-> d]

\* The orders SQLite lists a table's rows in when the statement names none:
\* by rowid as the table is scanned, or the reverse of that (which the
\* engine is free to choose, see PRAGMA reverse_unordered_selects).
Reverse(s) == [k \in 1..Len(s) |-> s[Len(s) + 1 - k]]
Orderings(s) == {s, Reverse(s)}

\* A read that misses the newest row.
SelectAllButLast(d) ==
  IF TableExists(d)
    THEN Orderings(IF Len(d.rows) = 0 THEN d.rows
                   ELSE SubSeq(d.rows, 1, Len(d.rows) - 1))
    ELSE {}

\* 'SELECT * FROM locations;' (line 130): the listings the statement may
\* return.  It has no ORDER BY, so SQL leaves the order of the rows open;
\* no such table: no listing (the statement fails).
SelectAll(d) == IF TableExists(d) THEN Orderings(d.rows) ELSE {}

\* What the connection's statements do to an open transaction (ok: the
\* statement meets no storage error of its own).
\* BEGIN: "cannot start a transaction within a transaction" when one is open.
BeginOk(ok) == ok /\ ~txActive
CommitOk(ok) == ok /\ txActive

\* COMMIT: "cannot commit - no transaction is active" when none is open.
Commit(ok) ==
  IF CommitOk(ok)
    THEN txActive' = FALSE /\ dbSaved' = EmptyDb /\ UNCHANGED db
    ELSE UNCHANGED dbVars

\* ROLLBACK: undoes everything since the open transaction's BEGIN.
Rollback ==
  IF txActive
    THEN txActive' = FALSE /\ db' = dbSaved /\ dbSaved' = EmptyDb
    ELSE UNCHANGED dbVars

\* What is durably in the database: the open transaction's work excluded.
Committed == IF txActive THEN dbSaved ELSE db

\* The flows that issue statements: createTable, initializeData's
\* loadLocations, and each invocation of getLocation.
CtFlow == << "createTable" >>
InitFlow == << "initializeData" >>
CapFlow(i) == << "getLocation", i >>

\* A flow's statement runs when it is the oldest one issued.
AtHead(flow) == dbQueue # << >> /\ Head(dbQueue) = flow
\* The flow's statement has run and ...
Issued(flow) == Append(dbQueue, flow)          \* (a flow issues its first)
Reissued(flow) == Append(Tail(dbQueue), flow)  \* ... it issued its next one
Settled == Tail(dbQueue)                       \* ... it issued no other

\* ------------------------------------------------------------------ Init
\* The state right after App mounts for the first time: useState defaults,
\* nothing stored, and the mount effect (lines 143-150) has called
\* createTable() and loadDarkMode() up to their first await.
Init ==
  /\ isSwitchOn = FALSE
  /\ isLoading = FALSE
  /\ locations = NullLocations
  /\ storage = AbsentItem
  /\ db = EmptyDb
  /\ dbSaved = EmptyDb
  /\ txActive = FALSE
  /\ dbQueue = << CtFlow >>
  /\ ctPc = "begin"
  /\ initPc = "getItem"
  /\ initFetched = << >>
  /\ pc = [i \in CaptureIds |-> "Idle"]
  /\ pos = [i \in CaptureIds |-> NoPosition]
  /\ fetched = [i \in CaptureIds |-> << >>]
  /\ togPc = [t \in ToggleIds |-> "idle"]
  /\ togValue = [t \in ToggleIds |-> FALSE]
  /\ alert = NoAlert
  /\ unhandled = {}
  /\ startLen = [i \in CaptureIds |-> 0]
  /\ insertedId = [i \in CaptureIds |-> 0]
  /\ did = [i \in CaptureIds |-> {}]
  /\ lastStatus = "none"
  /\ lastSet = NeverSet
  /\ sessionToggled = FALSE
  /\ writeFailed = FALSE
  /\ prefLoad = "pending"

\* ----------------------------------------------------------- createTable
\* createTable (lines 97-108), called without await at line 145.
\* BEGIN takes effect; on success the task runs at once:
\* db.execSync(CREATE TABLE IF NOT EXISTS ...), line 101.
CreateTableBegin ==
  /\ ctPc = "begin"
  /\ AtHead(CtFlow)
  /\ dbQueue' = Reissued(CtFlow)
  /\ \E ok \in BOOLEAN :
       IF BeginOk(ok)
         THEN LET r == CreateTableIfNotExists(db) IN
                /\ txActive' = TRUE
                /\ dbSaved' = db
                /\ db' = r.db
                /\ ctPc' = IF r.ok THEN "commit" ELSE "rollback"
         ELSE /\ UNCHANGED dbVars
              /\ ctPc' = "rollback"
  /\ UNCHANGED << reactVars, initVars, capVars, togVars, prefVars, unhandled >>

CreateTableCommit ==
  /\ ctPc = "commit"
  /\ AtHead(CtFlow)
  /\ \E ok \in BOOLEAN :
       /\ Commit(ok)
       /\ ctPc' = IF CommitOk(ok) THEN "done" ELSE "rollback"
       /\ dbQueue' = IF CommitOk(ok) THEN Settled ELSE Reissued(CtFlow)
  /\ UNCHANGED << reactVars, initVars, capVars, togVars, prefVars, unhandled >>

\* ROLLBACK, then the error is rethrown (line 106) to a promise nobody awaits.
CreateTableRollback ==
  /\ ctPc = "rollback"
  /\ AtHead(CtFlow)
  /\ dbQueue' = Settled
  /\ Rollback
  /\ ctPc' = "failed"
  /\ unhandled' = unhandled \cup {"createTable"}
  /\ UNCHANGED << reactVars, initVars, capVars, togVars, prefVars >>

\* -------------------------------------------------------- initializeData
\* loadDarkMode (lines 33-42): AsyncStorage.getItem('darkMode') resolves
\* with the item and, if one is stored, its parsed value becomes isSwitchOn
\* (lines 36-38); or it rejects, which is caught and logged (line 40).
\* Either way initializeData goes on to loadLocations() (line 147).
LoadDarkMode ==
  /\ initPc = "getItem"
  /\ \E ok \in BOOLEAN :
       /\ isSwitchOn' = IF ok /\ storage # AbsentItem THEN JSONparse(storage)
                        ELSE isSwitchOn
       /\ prefLoad' = IF ok THEN "resolved" ELSE "rejected"
  /\ initPc' = "loadBegin"
  /\ dbQueue' = Issued(InitFlow)
  /\ UNCHANGED << isLoading, locations, dbVars, ctVars, initFetched, capVars,
                  togVars, prefVars, unhandled >>

\* loadLocations (lines 126-139) as called by initializeData: BEGIN, and on
\* success the task: fetchedData = db.getAllSync(SELECT ...), line 130.
InitLoadBegin ==
  /\ initPc = "loadBegin"
  /\ AtHead(InitFlow)
  /\ dbQueue' = Reissued(InitFlow)
  /\ \E ok \in BOOLEAN :
       IF BeginOk(ok)
         THEN /\ txActive' = TRUE
              /\ dbSaved' = db
              /\ UNCHANGED db
              /\ \/ \E rows \in SelectAll(db) :
                      initFetched' = rows /\ initPc' = "loadCommit"
                 \/ /\ SelectAll(db) = {}
                    /\ initPc' = "loadRollback"
                    /\ UNCHANGED initFetched
         ELSE /\ UNCHANGED << dbVars, initFetched >>
              /\ initPc' = "loadRollback"
  /\ UNCHANGED << reactVars, ctVars, capVars, togVars, prefVars, prefLoad,
                  unhandled >>

\* COMMIT, then setLocations(fetchedData) (line 134).
InitLoadCommit ==
  /\ initPc = "loadCommit"
  /\ AtHead(InitFlow)
  /\ \E ok \in BOOLEAN :
       /\ Commit(ok)
       /\ dbQueue' = IF CommitOk(ok) THEN Settled ELSE Reissued(InitFlow)
       /\ IF CommitOk(ok)
            THEN /\ locations' = [loaded |-> TRUE, data |-> initFetched]
                 /\ initFetched' = << >>
                 /\ initPc' = "done"
            ELSE /\ initPc' = "loadRollback"
                 /\ UNCHANGED << locations, initFetched >>
  /\ UNCHANGED << isSwitchOn, isLoading, ctVars, capVars, togVars, prefVars,
                  prefLoad, unhandled >>

\* ROLLBACK, rethrown by loadLocations (line 137) out of initializeData,
\* whose promise nobody handles (line 149).
InitLoadRollback ==
  /\ initPc = "loadRollback"
  /\ AtHead(InitFlow)
  /\ dbQueue' = Settled
  /\ Rollback
  /\ initPc' = "failed"
  /\ initFetched' = << >>
  /\ unhandled' = unhandled \cup {"initializeData"}
  /\ UNCHANGED << reactVars, ctVars, capVars, togVars, prefVars, prefLoad >>

\* ----------------------------------------------------------- getLocation
\* getLocation (lines 54-94), one process per pending invocation.  The
\* capture Button (lines 172-180) passes loading={isLoading} but is never
\* disabled, and getLocation tests nothing before it starts: a press while
\* another invocation is pending starts a second one.

\* A test that lets every status but 'denied' through.
IsNotDenied(status) == status # "denied"

\* Line 62: status !== 'granted' takes the denial branch.
IsGranted(status) == status = "granted"

\* A catch block that only logs.
CatchLogOnly(thrownBy) == NoAlert

\* The catch block (lines 87-89): console.error, then Alert.alert('Erro',
\* `... Detalhes: ${error.message || error} ...`); the detail names the
\* call that threw.
CatchAlert(thrownBy) == [title |-> "Erro", detail |-> thrownBy]

\* Lines 63-67: Alert.alert('Permissao de Localizacao', '... foi negada ...').
DeniedAlert == [title |-> "Permissao de Localizacao", detail |-> "negada"]

\* A return that skips the cleanup.
FinishNoCleanup(i, raised) ==
  /\ pc' = [pc EXCEPT ![i] = "Idle"]
  /\ alert' = IF raised = NoAlert THEN alert ELSE raised
  /\ did' = [did EXCEPT ![i] = {}]
  /\ pos' = [pos EXCEPT ![i] = NoPosition]
  /\ fetched' = [fetched EXCEPT ![i] = << >>]
  /\ startLen' = [startLen EXCEPT ![i] = 0]
  /\ insertedId' = [insertedId EXCEPT ![i] = 0]
  /\ UNCHANGED isLoading

\* How an invocation ends: the alert its branch raised (NoAlert on the
\* success path), then the finally block (lines 90-93): setIsLoading(false).
\* Its locals (location, fetchedData) are gone.
Finish(i, raised) ==
  /\ isLoading' = FALSE
  /\ pc' = [pc EXCEPT ![i] = "Idle"]
  /\ alert' = IF raised = NoAlert THEN alert ELSE raised
  /\ did' = [did EXCEPT ![i] = {}]
  /\ pos' = [pos EXCEPT ![i] = NoPosition]
  /\ fetched' = [fetched EXCEPT ![i] = << >>]
  /\ startLen' = [startLen EXCEPT ![i] = 0]
  /\ insertedId' = [insertedId EXCEPT ![i] = 0]

Pending == { j \in CaptureIds : pc[j] # "Idle" }

\* onPress (line 177): setIsLoading(true), then the permission request.
\* An Alert dialog is modal: the press comes after it was dismissed.
\* (Invocations take the lowest free process; the table is kept within
\* MaxRecords rows.)
StartCapture(i) ==
  /\ pc[i] = "Idle"
  /\ \A j \in CaptureIds : j < i => pc[j] # "Idle"
  /\ db.seq + Cardinality(Pending) < MaxRecords
  /\ isLoading' = TRUE
  /\ UNCHANGED dbQueue
  /\ alert' = NoAlert
  /\ lastStatus' = "none"
  /\ pc' = [pc EXCEPT ![i] = "RequestingPermission"]
  /\ startLen' = [startLen EXCEPT ![i] = Len(db.rows)]
  /\ UNCHANGED insertedId
  /\ UNCHANGED << isSwitchOn, locations, dbVars, ctVars, initVars, pos,
                  fetched, did, togVars, prefVars, unhandled >>

\* Lines 60-69: the permission request resolves with a status or rejects.
\* Granted: getCurrentPositionAsync is called (line 72).
PermissionResult(i) ==
  /\ pc[i] = "RequestingPermission"
  /\ UNCHANGED dbQueue
  /\ \E outcome \in PermissionOutcomes :
     /\ lastStatus' = outcome
     /\ IF outcome = "throws"
         THEN Finish(i, CatchAlert("requestForegroundPermissionsAsync"))
         ELSE IF IsGranted(outcome)
           THEN /\ pc' = [pc EXCEPT ![i] = "AcquiringLocation"]
                /\ did' = [did EXCEPT ![i] = @ \cup {"position"}]
                /\ UNCHANGED << isLoading, alert, pos, fetched, startLen,
                                insertedId >>
           ELSE Finish(i, DeniedAlert)
  /\ UNCHANGED << isSwitchOn, locations, dbVars, ctVars, initVars, togVars,
                  prefVars, unhandled >>

\* Lines 72-80: the position arrives and saveLocation(latitude, longitude)
\* is called, or getCurrentPositionAsync rejects.
PositionResult(i) ==
  /\ pc[i] = "AcquiringLocation"
  /\ \/ \E p \in Positions :
          /\ pos' = [pos EXCEPT ![i] = p]
          /\ pc' = [pc EXCEPT ![i] = "saveBegin"]
          /\ dbQueue' = Issued(CapFlow(i))
          /\ UNCHANGED << isLoading, alert, fetched, startLen, insertedId,
                          did >>
     \/ /\ Finish(i, CatchAlert("getCurrentPositionAsync"))
        /\ UNCHANGED dbQueue
  /\ UNCHANGED lastStatus
  /\ UNCHANGED << isSwitchOn, locations, dbVars, ctVars, initVars, togVars,
                  prefVars, unhandled >>

\* saveLocation (lines 110-122): BEGIN, and on success the task:
\* db.runSync(INSERT ...), line 114.
SaveBegin(i) ==
  /\ pc[i] = "saveBegin"
  /\ AtHead(CapFlow(i))
  /\ dbQueue' = Reissued(CapFlow(i))
  /\ UNCHANGED lastStatus
  /\ \E ok \in BOOLEAN :
       IF BeginOk(ok)
         THEN LET r == Insert(db, pos[i].latitude, pos[i].longitude) IN
                /\ txActive' = TRUE
                /\ dbSaved' = db
                /\ db' = r.db
                /\ pc' = [pc EXCEPT ![i] = IF r.ok THEN "saveCommit"
                                           ELSE "saveRollback"]
                /\ did' = [did EXCEPT ![i] = IF r.ok THEN @ \cup {"insert"}
                                             ELSE @]
                /\ insertedId' = [insertedId EXCEPT ![i] =
                                    IF r.ok THEN r.db.seq ELSE @]
         ELSE /\ UNCHANGED << dbVars, did, insertedId >>
              /\ pc' = [pc EXCEPT ![i] = "saveRollback"]
  /\ UNCHANGED << reactVars, ctVars, initVars, pos, fetched, startLen, alert,
                  togVars, prefVars, unhandled >>

\* A getLocation that goes on to loadLocations() however the COMMIT of
\* saveLocation ended.
SaveCommitUnchecked(i) ==
  /\ pc[i] = "saveCommit"
  /\ AtHead(CapFlow(i))
  /\ dbQueue' = Reissued(CapFlow(i))
  /\ UNCHANGED lastStatus
  /\ \E ok \in BOOLEAN : Commit(ok)
  /\ pc' = [pc EXCEPT ![i] = "loadBegin"]
  /\ UNCHANGED << reactVars, ctVars, initVars, pos, fetched, startLen,
                  insertedId, did, alert, togVars, prefVars, unhandled >>

\* COMMIT, then saveLocation returns and loadLocations() starts (line 84).
SaveCommit(i) ==
  /\ pc[i] = "saveCommit"
  /\ AtHead(CapFlow(i))
  /\ dbQueue' = Reissued(CapFlow(i))
  /\ UNCHANGED lastStatus
  /\ \E ok \in BOOLEAN :
       /\ Commit(ok)
       /\ pc' = [pc EXCEPT ![i] = IF CommitOk(ok) THEN "loadBegin"
                                  ELSE "saveRollback"]
  /\ UNCHANGED << reactVars, ctVars, initVars, pos, fetched, startLen,
                  insertedId, did,
                  alert, togVars, prefVars, unhandled >>

\* A saveLocation whose catch logs the error and does not rethrow it:
\* getLocation goes on to loadLocations as if the record were saved.
SaveRollbackSwallowed(i) ==
  /\ pc[i] = "saveRollback"
  /\ AtHead(CapFlow(i))
  /\ dbQueue' = Reissued(CapFlow(i))
  /\ Rollback
  /\ pc' = [pc EXCEPT ![i] = "loadBegin"]
  /\ UNCHANGED << reactVars, ctVars, initVars, pos, fetched, startLen,
                  insertedId, did,
                  alert, lastStatus, togVars, prefVars, unhandled >>

\* ROLLBACK, rethrown by saveLocation (line 120) into getLocation's catch.
SaveRollback(i) ==
  /\ pc[i] = "saveRollback"
  /\ AtHead(CapFlow(i))
  /\ dbQueue' = Settled
  /\ Rollback
  /\ UNCHANGED lastStatus
  /\ Finish(i, CatchAlert("saveLocation"))
  /\ UNCHANGED << isSwitchOn, locations, ctVars, initVars, togVars, prefVars,
                  unhandled >>

\* loadLocations (lines 126-139) as called by getLocation: BEGIN, and on
\* success the task: fetchedData = db.getAllSync(SELECT ...), line 130.
LoadBegin(i) ==
  /\ pc[i] = "loadBegin"
  /\ AtHead(CapFlow(i))
  /\ dbQueue' = Reissued(CapFlow(i))
  /\ UNCHANGED lastStatus
  /\ \E ok \in BOOLEAN :
       IF BeginOk(ok)
         THEN /\ txActive' = TRUE
              /\ dbSaved' = db
              /\ UNCHANGED db
              /\ \/ \E rows \in SelectAll(db) :
                      /\ fetched' = [fetched EXCEPT ![i] = rows]
                      /\ pc' = [pc EXCEPT ![i] = "loadCommit"]
                      /\ did' = [did EXCEPT ![i] = @ \cup {"select"}]
                 \/ /\ SelectAll(db) = {}
                    /\ pc' = [pc EXCEPT ![i] = "loadRollback"]
                    /\ UNCHANGED << fetched, did >>
         ELSE /\ UNCHANGED << dbVars, fetched, did >>
              /\ pc' = [pc EXCEPT ![i] = "loadRollback"]
  /\ UNCHANGED << reactVars, ctVars, initVars, pos, startLen, insertedId,
                  alert, togVars,
                  prefVars, unhandled >>

\* COMMIT, then setLocations(fetchedData) (line 134); getLocation ends.
LoadCommit(i) ==
  /\ pc[i] = "loadCommit"
  /\ AtHead(CapFlow(i))
  /\ UNCHANGED lastStatus
  /\ \E ok \in BOOLEAN :
       /\ Commit(ok)
       /\ dbQueue' = IF CommitOk(ok) THEN Settled ELSE Reissued(CapFlow(i))
       /\ IF CommitOk(ok)
            THEN /\ locations' = [loaded |-> TRUE, data |-> fetched[i]]
                 /\ Finish(i, NoAlert)
            ELSE /\ pc' = [pc EXCEPT ![i] = "loadRollback"]
                 /\ UNCHANGED << isLoading, locations, did, alert, pos,
                                 fetched, startLen, insertedId >>
  /\ UNCHANGED << isSwitchOn, ctVars, initVars, togVars, prefVars, unhandled >>

\* A reload that is tried again whenever it fails.
LoadRollbackRetry(i) ==
  /\ pc[i] = "loadRollback"
  /\ AtHead(CapFlow(i))
  /\ dbQueue' = Reissued(CapFlow(i))
  /\ Rollback
  /\ pc' = [pc EXCEPT ![i] = "loadBegin"]
  /\ UNCHANGED << reactVars, ctVars, initVars, pos, fetched, startLen,
                  insertedId, did, alert, lastStatus, togVars, prefVars,
                  unhandled >>

\* ROLLBACK, rethrown by loadLocations (line 137) into getLocation's catch.
LoadRollback(i) ==
  /\ pc[i] = "loadRollback"
  /\ AtHead(CapFlow(i))
  /\ dbQueue' = Settled
  /\ Rollback
  /\ UNCHANGED lastStatus
  /\ Finish(i, CatchAlert("loadLocations"))
  /\ UNCHANGED << isSwitchOn, locations, ctVars, initVars, togVars, prefVars,
                  unhandled >>

\* -------------------------------------------------------- onToggleSwitch
\* Lines 45-48: newValue = !isSwitchOn; setIsSwitchOn(newValue); setItem is
\* called.  (The handler reads the state of the latest render.)
ToggleStart(t) ==
  /\ togPc[t] = "idle"
  /\ \A u \in ToggleIds : u < t => togPc[u] # "idle"
  /\ sessionToggled' = TRUE
  /\ UNCHANGED writeFailed
  /\ UNCHANGED dbQueue
  /\ isSwitchOn' = ~isSwitchOn
  /\ togValue' = [togValue EXCEPT ![t] = ~isSwitchOn]
  /\ togPc' = [togPc EXCEPT ![t] = "writing"]
  /\ UNCHANGED << isLoading, locations, dbVars, ctVars, initVars, capVars,
                  prefVars, unhandled >>

\* Lines 48-51: AsyncStorage.setItem('darkMode', JSON.stringify(newValue))
\* completes, or fails and is logged.
ToggleWrite(t) ==
  /\ togPc[t] = "writing"
  /\ UNCHANGED dbQueue
  /\ \E ok \in BOOLEAN :
       IF ok
         THEN /\ storage' = JSONstringify(togValue[t])
              /\ lastSet' = [set |-> TRUE, value |-> togValue[t]]
              /\ UNCHANGED writeFailed
         ELSE /\ UNCHANGED prefVars
              /\ writeFailed' = TRUE
  /\ togPc' = [togPc EXCEPT ![t] = "idle"]
  /\ togValue' = [togValue EXCEPT ![t] = FALSE]
  /\ UNCHANGED << reactVars, dbVars, ctVars, initVars, capVars,
                  sessionToggled, unhandled >>

\* ---------------------------------------------------------------- Restart
\* The app is closed and opened again: a new session.  The component state
\* and every pending call are gone; AsyncStorage and the committed database
\* stay (closing the connection rolls an open transaction back); the mount
\* effect runs again.
Restart ==
  /\ isSwitchOn' = FALSE
  /\ isLoading' = FALSE
  /\ locations' = NullLocations
  /\ db' = Committed
  /\ dbSaved' = EmptyDb
  /\ txActive' = FALSE
  /\ dbQueue' = << CtFlow >>
  /\ ctPc' = "begin"
  /\ initPc' = "getItem"
  /\ initFetched' = << >>
  /\ pc' = [i \in CaptureIds |-> "Idle"]
  /\ pos' = [i \in CaptureIds |-> NoPosition]
  /\ fetched' = [i \in CaptureIds |-> << >>]
  /\ startLen' = [i \in CaptureIds |-> 0]
  /\ insertedId' = [i \in CaptureIds |-> 0]
  /\ did' = [i \in CaptureIds |-> {}]
  /\ lastStatus' = "none"
  /\ togPc' = [t \in ToggleIds |-> "idle"]
  /\ togValue' = [t \in ToggleIds |-> FALSE]
  /\ sessionToggled' = FALSE
  /\ writeFailed' = FALSE
  /\ prefLoad' = "pending"
  /\ alert' = NoAlert
  /\ unhandled' = {}
  /\ UNCHANGED prefVars

\* ------------------------------------------------------------------ Next
Next ==
  \/ CreateTableBegin
  \/ CreateTableCommit
  \/ CreateTableRollback
  \/ LoadDarkMode
  \/ InitLoadBegin
  \/ InitLoadCommit
  \/ InitLoadRollback
  \/ \E i \in CaptureIds : StartCapture(i)
  \/ \E i \in CaptureIds : PermissionResult(i)
  \/ \E i \in CaptureIds : PositionResult(i)
  \/ \E i \in CaptureIds : SaveBegin(i)
  \/ \E i \in CaptureIds : SaveCommit(i)
  \/ \E i \in CaptureIds : SaveRollback(i)
  \/ \E i \in CaptureIds : LoadBegin(i)
  \/ \E i \in CaptureIds : LoadCommit(i)
  \/ \E i \in CaptureIds : LoadRollback(i)
  \/ Restart

\* The capture workflow and the record store, with the startup they share
\* the connection with.
Spec == Init /\ [][Next]_vars

\* Every call the program awaits eventually resolves or rejects: the steps
\* that are the return of a platform or storage call are taken if they stay
\* possible.  Pressing the button and restarting are up to the user.
Returns ==
  /\ WF_vars(CreateTableBegin)
  /\ WF_vars(CreateTableCommit)
  /\ WF_vars(CreateTableRollback)
  /\ WF_vars(LoadDarkMode)
  /\ WF_vars(InitLoadBegin)
  /\ WF_vars(InitLoadCommit)
  /\ WF_vars(InitLoadRollback)
  /\ \A i \in CaptureIds :
       /\ WF_vars(PermissionResult(i))
       /\ WF_vars(PositionResult(i))
       /\ WF_vars(SaveBegin(i))
       /\ WF_vars(SaveCommit(i))
       /\ WF_vars(SaveRollback(i))
       /\ WF_vars(LoadBegin(i))
       /\ WF_vars(LoadCommit(i))
       /\ WF_vars(LoadRollback(i))

\* One session: the steps of Next without the restart, which would end a
\* pending invocation from outside.
LiveNext ==
  \/ CreateTableBegin
  \/ CreateTableCommit
  \/ CreateTableRollback
  \/ LoadDarkMode
  \/ InitLoadBegin
  \/ InitLoadCommit
  \/ InitLoadRollback
  \/ \E i \in CaptureIds : StartCapture(i)
  \/ \E i \in CaptureIds : PermissionResult(i)
  \/ \E i \in CaptureIds : PositionResult(i)
  \/ \E i \in CaptureIds : SaveBegin(i)
  \/ \E i \in CaptureIds : SaveCommit(i)
  \/ \E i \in CaptureIds : SaveRollback(i)
  \/ \E i \in CaptureIds : LoadBegin(i)
  \/ \E i \in CaptureIds : LoadCommit(i)
  \/ \E i \in CaptureIds : LoadRollback(i)

LiveSpec == Init /\ [][LiveNext]_vars /\ Returns

\* The dark-mode preference: the startup load, the switch and restarts.  It
\* shares no state with the record store.
PrefNext ==
  \/ LoadDarkMode
  \/ \E t \in ToggleIds : ToggleStart(t)
  \/ \E t \in ToggleIds : ToggleWrite(t)
  \/ Restart

PrefSpec == Init /\ [][PrefNext]_vars

\* ================================================================ claims
Rows(listing) == { listing[k] : k \in 1..Len(listing) }

\* C1: re-entrancy guard: in every reachable state at most one invocation
\* of the capture workflow is between its permission request and its
\* cleanup.
C1_AtMostOneCapturePending == Cardinality(Pending) <= 1

\* C2: whenever an invocation of the capture workflow ends, on any of its
\* paths, it is Idle and the loading flag has been set to false.
C2_EveryExitClearsLoading ==
  [][ \A i \in CaptureIds :
        (pc[i] # "Idle" /\ pc'[i] = "Idle") => ~isLoading' ]_vars

\* C2 witness: an invocation has run to its last step (the reload failed),
\* nothing is pending and the loading flag is off.
C2_Witness ==
  /\ alert = CatchAlert("loadLocations")
  /\ Pending = {}
  /\ ~isLoading

\* C3: a capture that ends on the success path read a listing exactly one
\* record longer than the store held when it started, and that listing has
\* a record with the coordinates the provider returned to it.
C3_SuccessAddsExactlyOne ==
  [][ \A i \in CaptureIds :
        (~Restart /\ pc[i] = "loadCommit" /\ pc'[i] = "Idle") =>
          /\ Len(fetched[i]) = startLen[i] + 1
          /\ \E r \in Rows(fetched[i]) :
               /\ r.latitude = pos[i].latitude
               /\ r.longitude = pos[i].longitude ]_vars

\* C4: when the permission request returns a status other than granted, the
\* invocation raises the permission alert, has fetched no position, inserted
\* and reloaded nothing (database, statement queue and published list are
\* as before) and ends Idle with loading false.
C4_DeniedStopsWithAlert ==
  [][ \A i \in CaptureIds :
        ( /\ pc[i] = "RequestingPermission"
          /\ pc'[i] # "RequestingPermission"
          /\ lastStatus' \in {"denied", "undetermined"} ) =>
          /\ alert' = DeniedAlert
          /\ pc'[i] = "Idle"
          /\ ~isLoading'
          /\ did[i] = {}
          /\ db' = db /\ dbSaved' = dbSaved /\ txActive' = txActive
          /\ dbQueue' = dbQueue
          /\ locations' = locations ]_vars

\* C4 witness: a request returned "undetermined" and the permission alert
\* is up with nothing pending.
C4_Witness ==
  /\ lastStatus = "undetermined"
  /\ alert = DeniedAlert
  /\ Pending = {}
  /\ ~isLoading

\* C5: when the position fetch fails, the invocation raises the error
\* alert, has inserted nothing (the database is as before) and ends Idle
\* with loading false.
C5_PositionFailureStopsWithAlert ==
  [][ \A i \in CaptureIds :
        (~Restart /\ pc[i] = "AcquiringLocation" /\ pc'[i] = "Idle") =>
          /\ alert' = CatchAlert("getCurrentPositionAsync")
          /\ ~isLoading'
          /\ "insert" \notin did[i]
          /\ db' = db /\ dbSaved' = dbSaved /\ txActive' = txActive
          /\ dbQueue' = dbQueue ]_vars

\* C5 witness: permission was granted, the fetch failed, its alert is up.
C5_Witness ==
  /\ lastStatus = "granted"
  /\ alert = CatchAlert("getCurrentPositionAsync")
  /\ Pending = {}
  /\ ~isLoading

\* C6: when the insert or the reload of a capture fails, the invocation
\* raises the error alert naming the failed call and ends Idle with loading
\* false.
C6_StorageFailureSurfaced ==
  [][ \A i \in CaptureIds :
        ( /\ ~Restart
          /\ pc[i] \in {"saveRollback", "loadRollback"}
          /\ pc'[i] # pc[i] ) =>
          /\ pc'[i] = "Idle"
          /\ ~isLoading'
          /\ alert' = CatchAlert(IF pc[i] = "saveRollback" THEN "saveLocation"
                                 ELSE "loadLocations") ]_vars

\* C6 witness: an insert failed and its alert is up with nothing pending.
C6_Witness ==
  /\ alert = CatchAlert("saveLocation")
  /\ Pending = {}
  /\ ~isLoading

\* C7: read-your-write: an insert of (x, y) writes a record with latitude x
\* and longitude y, what has committed stays committed, and every listing
\* read afterwards (by a capture's reload or by the startup load) contains
\* each committed record, with its coordinates.
C7_ReadYourWrite ==
  [][ /\ Rows(Committed.rows) \subseteq Rows(Committed'.rows)
      /\ \A i \in CaptureIds :
           (pc[i] = "saveBegin" /\ pc'[i] = "saveCommit") =>
             \E r \in Rows(db'.rows) \ Rows(db.rows) :
               /\ r.latitude = pos[i].latitude
               /\ r.longitude = pos[i].longitude
      /\ \A i \in CaptureIds :
           (pc[i] = "loadBegin" /\ pc'[i] = "loadCommit") =>
             Rows(Committed.rows) \subseteq Rows(fetched'[i])
      /\ (initPc = "loadBegin" /\ initPc' = "loadCommit") =>
           Rows(Committed.rows) \subseteq Rows(initFetched') ]_vars

\* C7 witness: a capture whose insert committed holds the listing its
\* reload read, and the listing has its record.
C7_Witness ==
  \E i \in CaptureIds :
    /\ pc[i] = "loadCommit"
    /\ "insert" \in did[i]
    /\ Len(Committed.rows) = MaxRecords
    /\ \E r \in Rows(fetched[i]) :
         /\ r \in Rows(Committed.rows)
         /\ r.latitude = pos[i].latitude
         /\ r.longitude = pos[i].longitude

\* A listing in ascending id order.
Ascending(listing) ==
  \A k \in 1..(Len(listing) - 1) : listing[k].id < listing[k + 1].id

\* C8: every listing a read returns, and so every listing shown, is in
\* ascending id order (insertion order).
C8_ListingsAscendById ==
  /\ Ascending(initFetched)
  /\ Ascending(locations.data)
  /\ \A i \in CaptureIds : Ascending(fetched[i])

\* C9: preference round-trip: once a session's load of the preference has
\* resolved, and until the switch is pressed in that session, the flag is
\* the value of the last write that succeeded, or false if none ever has.
C9_PreferenceRoundTrip ==
  (prefLoad = "resolved" /\ ~sessionToggled) =>
    isSwitchOn = (lastSet.set /\ lastSet.value)

\* C9 witness: a later session has loaded the value true that an earlier
\* one wrote.
C9_Witness ==
  /\ prefLoad = "resolved"
  /\ ~sessionToggled
  /\ lastSet = [set |-> TRUE, value |-> TRUE]
  /\ isSwitchOn

\* The number of tables named locations.
LocationsTables(d) ==
  Cardinality({k \in DOMAIN d.tables : d.tables[k] = "locations"})

\* C10: createTable is idempotent: there is never more than one locations
\* table, and a createTable whose statement runs leaves exactly one, raises
\* no error, and leaves the records stored (and the id sequence) as they were.
C10_CreateTableIdempotent ==
  [][ /\ LocationsTables(db') <= 1
      /\ (ctPc = "begin" /\ ctPc' # "begin" /\ ~txActive /\ txActive') =>
           /\ ctPc' = "commit"
           /\ LocationsTables(db') = 1
           /\ db'.rows = db.rows
           /\ db'.seq = db.seq
           /\ TableExists(db) => db' = db ]_vars

\* C10 witness: createTable has run its statement again on a database that
\* already held the table and MaxRecords records.
C10_Witness ==
  /\ ctPc = "commit"
  /\ txActive
  /\ TableExists(dbSaved)
  /\ Len(dbSaved.rows) = MaxRecords
  /\ db = dbSaved

\* s is an initial part of t.
IsPrefix(s, t) == Len(s) <= Len(t) /\ SubSeq(t, 1, Len(s)) = s

\* C11: the record log is append-only: the ids in the table are unique and
\* ascending, no step changes or removes a committed record, and a record
\* that becomes committed has an id greater than every id committed before.
C11_AppendOnlyLog ==
  [][ /\ Ascending(db'.rows)
      /\ IsPrefix(Committed.rows, Committed'.rows)
      /\ \A k \in (Len(Committed.rows) + 1)..Len(Committed'.rows) :
           \A r \in Rows(Committed.rows) : r.id < Committed'.rows[k].id ]_vars

\* C11 witness: MaxRecords records are committed, with different ids, and
\* the session is not the one that stored the first of them.
C11_Witness ==
  /\ ~txActive
  /\ Len(db.rows) = MaxRecords
  /\ Cardinality({ r.id : r \in Rows(db.rows) }) = MaxRecords
  /\ ctPc = "begin"

\* The record invocation i inserted (its lastInsertRowId, its coordinates)
\* is durably in the database d.
HasInserted(d, i) ==
  \E r \in Rows(d.rows) :
    /\ r.id = insertedId[i]
    /\ r.latitude = pos[i].latitude
    /\ r.longitude = pos[i].longitude

\* C12: insert is atomic: when saveLocation returns, its COMMIT has committed
\* exactly one new record, the one it inserted; when saveLocation throws
\* after having inserted, that record is not in the committed log.
C12_InsertAtomic ==
  [][ \A i \in CaptureIds :
        /\ (pc[i] = "saveCommit" /\ pc'[i] = "loadBegin") =>
             /\ Len(Committed'.rows) = Len(Committed.rows) + 1
             /\ HasInserted(Committed', i)
        /\ ( /\ ~Restart
             /\ pc[i] = "saveRollback" /\ pc'[i] = "Idle"
             /\ insertedId[i] # 0 ) =>
             ~HasInserted(Committed', i) ]_vars

\* C13: when a write of the dark-mode flag fails, nothing is raised (no
\* alert, no unhandled rejection) and the in-memory flag is false afterwards.
C13_WriteFailureFallsBackToLight ==
  [][ (~writeFailed /\ writeFailed') =>
        /\ alert' = alert
        /\ unhandled' = unhandled
        /\ ~isSwitchOn' ]_vars

\* C14: while any invocation of the capture workflow is not Idle, the
\* loading flag is true.
C14_PendingImpliesLoading == Pending # {} => isLoading

\* The positions of an invocation from the call of saveLocation on, and
\* from the call of loadLocations on.
Persisting == {"saveBegin", "saveCommit", "saveRollback"}
Reloading == {"loadBegin", "loadCommit", "loadRollback"}

\* How often a flow stands in the statement queue.
Queued(flow) == Cardinality({k \in DOMAIN dbQueue : dbQueue[k] = flow})

C16_CaptureTerminates ==
  /\ [] (\A i \in CaptureIds : CapFlow(i) \notin unhandled)
  /\ \A i \in CaptureIds :
       (pc[i] # "Idle") ~> (pc[i] = "Idle" /\ ~isLoading)

\* C16 witness: an invocation is waiting for the ROLLBACK of its failed
\* reload, the last of its awaits, behind another flow's statement.
C16_Witness ==
  \E i \in CaptureIds :
    /\ pc[i] = "loadRollback"
    /\ isLoading
    /\ ~AtHead(CapFlow(i))

\* C17: when an invocation ends on the success path, the published list is
\* the listing its reload read, it holds exactly the records of the
\* committed log, among them the record the invocation inserted; when the
\* reload fails, the published list is left as it was.
C17_PublishedListIsTheLog ==
  [][ \A i \in CaptureIds :
        /\ (~Restart /\ pc[i] = "loadCommit" /\ pc'[i] = "Idle") =>
             /\ locations' = [loaded |-> TRUE, data |-> fetched[i]]
             /\ Rows(locations'.data) = Rows(Committed'.rows)
             /\ HasInserted(Committed', i)
             /\ \E r \in Rows(locations'.data) : r.id = insertedId[i]
        /\ (~Restart /\ pc[i] = "loadRollback" /\ pc'[i] = "Idle") =>
             locations' = locations ]_vars

\* C18: when an invocation ends in the catch branch, with the error alert,
\* the record it inserted (if it got that far) is not in the committed log.
C18_ErrorAlertMeansNothingSaved ==
  [][ \A i \in CaptureIds :
        ( /\ ~Restart
          /\ pc[i] # "Idle" /\ pc'[i] = "Idle"
          /\ alert'.title = "Erro" ) =>
          ~HasInserted(Committed', i) ]_vars

\* C19: during startup the first read of the history is issued only when
\* createTable has completed, and no failure of createTable or of that read
\* ends as an unhandled rejection.
C19_StartupOrderedAndCaught ==
  /\ initPc # "getItem" => ctPc \in {"done", "failed"}
  /\ unhandled \cap {"createTable", "initializeData"} = {}

\* What a load of the preference would yield: the stored value, false if
\* nothing is stored.
Persisted == storage # AbsentItem /\ JSONparse(storage)

\* C20: once the session's load of the preference has resolved and every
\* write of the session has completed, none of them rejected, the in-memory
\* flag equals the persisted value.
C20_FlagEqualsPersisted ==
  ( /\ prefLoad = "resolved"
    /\ \A t \in ToggleIds : togPc[t] = "idle"
    /\ ~writeFailed ) =>
    isSwitchOn = Persisted

====
